---- MODULE Spec2Model ----
(***************************************************************************)
(* The polar detectors of abtem/detect.py (AnnularDetector,                *)
(* FlexibleAnnularDetector, SegmentedDetector): the bins, the region       *)
(* labels, the index groups, the memoised region resolution and the        *)
(* integration built on them.                                              *)
(*                                                                         *)
(* Angles are exact: inner, outer and the angular sampling are integers    *)
(* (mrad), a radial step is a fraction <<num, den>>, an azimuthal step is  *)
(* 2*pi divided by an integer, and alpha = sqrt(kx^2 + ky^2) is compared   *)
(* through its square.  Floating-point rounding is not modelled.           *)
(***************************************************************************)
EXTENDS Integers, Sequences, FiniteSets, TLC

\* Python's None, for a nullable angle (inner, outer, cutoff, max_angle).
NONE == -1

\* An argument that is a string, a number, None or False (max_angle, resample,
\* save_file).  A path is the sequence of its characters.
Str(x) == <<"str", x>>
Num(x) == <<"num", x>>
None == <<"none">>
False == <<"bool", FALSE>>

\* ------------------------------------------------------------------ bounds
\* Largest angle (mrad) given to a constructor or a setter.
MaxAngle == 2
\* Largest nbins_radial given to SegmentedDetector or its setter.
MaxBinsRadial == 2

\* Largest number of positions of a custom scan, of points per axis of a line
\* or grid scan.
MaxScan == 3

\* The azimuthal bin counts: those whose sector boundaries are the axes.
AngularBins == {1, 4}
\* The waves detected: gpts, angular_sampling (mrad per pixel) and
\* min(cutoff_scattering_angles) (mrad).
Waves(gpts, angular_sampling, cutoff) ==
    [gpts |-> gpts, angular_sampling |-> angular_sampling, cutoff |-> cutoff]
WavesSet == {Waves(<<2, 2>>, <<1, 1>>, 1), Waves(<<3, 3>>, <<1, 1>>, 2)}

\* Waves whose grid is given its sampling alone: no extent, no gpts, hence no
\* angular sampling; the cutoff angle follows from the sampling.
UndefinedWaves == {Waves(None, None, 1), Waves(None, None, 2)}

\* waves.grid.check_is_defined() passes.
GridIsDefined(w) == w.gpts # None

\* ------------------------------------------------------------- arithmetic
\* floor(a / b) and ceil(a / b) for b # 0, int(a / b) truncating to zero.
FloorDiv(a, b) == IF b > 0 THEN a \div b ELSE (-a) \div (-b)
CeilDiv(a, b) == -FloorDiv(-a, b)
TruncDiv(a, b) == IF (a >= 0) = (b > 0) THEN FloorDiv(a, b) ELSE CeilDiv(a, b)

\* The float a / b for whole a and b > 0, as the fraction <<num, den>> in lowest
\* terms.
RECURSIVE Gcd(_, _)
Gcd(a, b) == IF b = 0 THEN a ELSE Gcd(b, a % b)
Abs(a) == IF a < 0 THEN -a ELSE a
Fraction(a, b) == LET g == Gcd(Abs(a), b) IN <<a \div g, b \div g>>

\* numpy's int is 64 bits wide and wraps silently.  TLC's integers are 32 bits
\* wide, so the wrap-around is kept at a reduced width: the only product that
\* overflows is int_min * nbins_azimuthal, which wraps alike at any width.
IntBits == 16
IntMin == -(2 ^ (IntBits - 1))
Wrap(x) == ((x - IntMin) % (2 ^ IntBits)) + IntMin

\* A float nan stored into an int array is undefined in C: the builds produce
\* the minimal int (x86) or 0 (arm).
NanOutcomes == {IntMin, 0}

\* <<f[1], ..., f[n]>>, evaluated once.
RECURSIVE Tuple(_, _)
Tuple(f, n) == IF n = 0 THEN <<>> ELSE Append(Tuple(f, n - 1), f[n])

RECURSIVE SumOver(_, _)
SumOver(f, S) == IF S = {} THEN 0
                 ELSE LET x == CHOOSE y \in S : TRUE
                      IN f[x] + SumOver(f, S \ {x})

\* --------------------------------------------------------- the frequencies
\* np.fft.fftfreq(n) * n: the signed integer frequency of index i.
FftFreq(n, i) == IF i < ((n - 1) \div 2) + 1 THEN i ELSE i - n

\* spatial_frequencies(gpts, sampling)[axis][i] with
\* sampling = 1 / angular_sampling / gpts: fftfreq(n, d)[i] = FftFreq(n, i) / (n d).
spatial_frequencies(n, angular_sampling, i) == FftFreq(n, i) * angular_sampling

Cells(gpts) == {<<i, j>> : i \in 0..(gpts[1] - 1), j \in 0..(gpts[2] - 1)}

\* ------------------------------------------------------------ the labeler
\* floor(nbins_radial * (alpha - inner) / (outer - inner)) for a valid cell
\* (inner <= alpha <= outer, inner < outer), from alpha^2; the store into the
\* int array truncates towards zero, which matters when nbins_radial < 0.
RadialBinPos(alphaSq, inner, outer, n) ==
    LET R == {r \in 0..n : (r * (outer - inner) + n * inner) ^ 2 <= n * n * alphaSq}
    IN CHOOSE r \in R : \A q \in R : q <= r

\* A labeler that takes the floor of the quotient whatever its sign.
RadialBinFloored(alphaSq, inner, outer, nbins_radial, nan) ==
    IF outer = inner THEN nan
    ELSE IF nbins_radial >= 0 THEN RadialBinPos(alphaSq, inner, outer, nbins_radial)
    ELSE LET r == RadialBinPos(alphaSq, inner, outer, -nbins_radial)
         IN IF (r * (outer - inner) - nbins_radial * inner) ^ 2
                   = nbins_radial * nbins_radial * alphaSq
            THEN -r ELSE -(r + 1)

RadialBin(alphaSq, inner, outer, nbins_radial, nan) ==
    IF outer = inner THEN nan
    ELSE IF nbins_radial >= 0 THEN RadialBinPos(alphaSq, inner, outer, nbins_radial)
    ELSE -RadialBinPos(alphaSq, inner, outer, -nbins_radial)

\* The quadrant of arctan2(y, x) % (2 pi), 0..3; arctan2(0, 0) = 0.
Quadrant(y, x) ==
    IF y >= 0 /\ x > 0 THEN 0
    ELSE IF y > 0 /\ x <= 0 THEN 1
    ELSE IF y <= 0 /\ x < 0 THEN 2
    ELSE IF y < 0 /\ x >= 0 THEN 3
    ELSE 0

Clip(v, lo, hi) == IF v < lo THEN lo ELSE IF v > hi THEN hi ELSE v

\* floor(nbins_azimuthal * angle / (2 pi)) clipped, for nbins_azimuthal in
\* AngularBins.
AngularBin(y, x, nbins_azimuthal) ==
    Clip((Quadrant(y, x) * nbins_azimuthal) \div 4, 0, nbins_azimuthal - 1)

\* _polar_regions: the label of every cell <<i, j>>.  The angles are radians
\* counted in units of 1e-3 rad, so the caller's division by 1e3 keeps the
\* numerals.
_polar_regions(gpts, angular_sampling, inner, outer, nbins_radial, nbins_azimuthal, nan) ==
    [c \in Cells(gpts) |->
        LET alpha_x == spatial_frequencies(gpts[1], angular_sampling[1], c[1])
            alpha_y == spatial_frequencies(gpts[2], angular_sampling[2], c[2])
            alphaSq == alpha_x * alpha_x + alpha_y * alpha_y
            \* (alpha >= inner) & (alpha <= outer), the angles being >= 0
            valid == alphaSq >= inner * inner /\ alphaSq <= outer * outer
        IN IF ~valid THEN -1
           ELSE Wrap(AngularBin(alpha_x, alpha_y, nbins_azimuthal)
                     + RadialBin(alphaSq, inner, outer, nbins_radial, nan)
                       * nbins_azimuthal)]

\* ------------------------------------------------------------ the grouper
\* A grouper with index = arange(0, max(labels)): the last label gets no group.
_label_to_index_short(labels2d, gpts) ==
    LET n == gpts[1] * gpts[2]
        flat(c) == labels2d[<<c \div gpts[2], c % gpts[2]>>]
        maxLabel == CHOOSE m \in {flat(c) : c \in 0..(n - 1)} :
                        \A c \in 0..(n - 1) : flat(c) <= m
    IN IF maxLabel < 1 THEN <<>>
       ELSE Tuple([g \in 1..maxLabel |->
                      SelectSeq(Tuple([k \in 1..n |-> k - 1], n),
                                LAMBDA c : flat(c) = g - 1)],
                  maxLabel)

\* _label_to_index: the groups for the labels 0..max(labels), each the flat
\* indices carrying the label.  argsort on arrays this small is an insertion
\* sort, which is stable.
_label_to_index(labels2d, gpts) ==
    LET n == gpts[1] * gpts[2]
        \* labels.flatten(): the label of flat index c is labels[c + 1]
        labels == Tuple([k \in 1..n |-> labels2d[<<(k - 1) \div gpts[2], (k - 1) % gpts[2]>>]], n)
        labels_order == SortSeq(Tuple([k \in 1..n |-> k - 1], n),
                                LAMBDA a, b : labels[a + 1] < labels[b + 1]
                                              \/ (labels[a + 1] = labels[b + 1] /\ a < b))
        sorted_labels == Tuple([k \in 1..n |-> labels[labels_order[k] + 1]], n)
        indices == labels_order
        maxLabel == CHOOSE m \in {labels[k] : k \in 1..n} :
                        \A k \in 1..n : labels[k] <= m
        lo(v) == Cardinality({k \in 1..n : sorted_labels[k] < v})
        hi(v) == Cardinality({k \in 1..n : sorted_labels[k] <= v})
    IN IF maxLabel < 0 THEN <<>>
       ELSE Tuple([g \in 1..(maxLabel + 1) |-> SubSeq(indices, lo(g - 1) + 1, hi(g - 1))],
                  maxLabel + 1)

\* ----------------------------------------------------------- the detector
\* str.endswith and str + str on sequences of characters.
endswith(str, suffix) ==
    /\ Len(str) >= Len(suffix)
    /\ SubSeq(str, Len(str) - Len(suffix) + 1, Len(str)) = suffix

hdf5 == <<".", "h", "d", "f", "5">>

\* str(save_file): a string is itself, the number 5 is '5'.
str(x) == IF x[1] = "str" THEN x[2] ELSE <<"5">>

\* AbstractDetector.__init__: the _save_file kept for the save_file given.
_save_file(save_file) ==
    IF save_file # None
    THEN IF ~endswith(str(save_file), hdf5) THEN Str(str(save_file) \o hdf5)
         ELSE Str(str(save_file))
    ELSE None

\* A detector: its class, _inner, _outer, _radial_steps as <<num, den>>,
\* _azimuthal_steps as 2 pi / azimuthal_div, _max_detected_angle and
\* _save_file.  The constructors are written with save_file left at its default;
\* WithSaveFile is the same construction with a save_file given.
AnnularDetector(inner, outer) ==
    [kind |-> "Annular", inner |-> inner, outer |-> outer,
     radial_steps |-> Fraction(outer - inner, 1), azimuthal_div |-> 1,
     max_detected_angle |-> outer, save_file |-> _save_file(None)]

WithSaveFile(d, save_file) == [d EXCEPT !.save_file = _save_file(save_file)]

FlexibleAnnularDetector(step_size) ==
    [kind |-> "FlexibleAnnular", inner |-> NONE, outer |-> NONE,
     radial_steps |-> Fraction(step_size, 1), azimuthal_div |-> 1,
     max_detected_angle |-> NONE, save_file |-> _save_file(None)]

SegmentedDetector(inner, outer, nbins_radial, nbins_angular) ==
    [kind |-> "Segmented", inner |-> inner, outer |-> outer,
     radial_steps |-> IF nbins_radial > 0 THEN Fraction(outer - inner, nbins_radial)
                      ELSE Fraction(inner - outer, -nbins_radial),
     azimuthal_div |-> nbins_angular, max_detected_angle |-> outer,
     save_file |-> _save_file(None)]

\* A cache that keeps two entries.
CacheCapacityTwo == 1 + 1

\* Cache(1): the capacity of the detector's cache.
CacheCapacity == 1

\* Event(): the callbacks registered on self.changed.  The constructor
\* registers none.
changed_callbacks == {}

\* The errors, as raised: the exception class and its message.
OuterNotSetError == [type |-> "RuntimeError", msg |-> "The outer integration angle is not set."]
ZeroSizedError == [type |-> "RuntimeError", msg |-> "Zero-sized detector region."]
ZeroDivisionError == [type |-> "ZeroDivisionError", msg |-> "float division by zero"]
IndexError == [type |-> "IndexError", msg |-> "list index out of range"]
ValueError == [type |-> "ValueError", msg |-> "cannot reshape array"]
UnitsError == [type |-> "RuntimeError", msg |-> ""]
ResampleError == [type |-> "RuntimeError", msg |-> ""]
MaxAngleError == [type |-> "RuntimeError",
                  msg |-> "Detector max angle exceeds the cutoff scattering angle."]
GridUndefinedError == [type |-> "RuntimeError", msg |-> "grid extent is not defined"]
AttributeError == [type |-> "AttributeError", msg |-> "object has no attribute"]
NoError == [type |-> "none", msg |-> ""]

\* _get_bins with an unset outer taken to be the cutoff as it is, not the largest
\* multiple of the radial step below it.
_get_bins_unfloored(self, cutoff_scattering_angle) ==
    LET inner == IF self.inner = NONE THEN 0 ELSE self.inner
        num == self.radial_steps[1]
        den == self.radial_steps[2]
        outer == IF self.outer = NONE THEN cutoff_scattering_angle ELSE self.outer
    IN IF self.outer = NONE /\ cutoff_scattering_angle = NONE
       THEN [err |-> OuterNotSetError]
       ELSE IF num = 0 THEN [err |-> ZeroDivisionError]
       ELSE [err |-> NoError,
             nbins_radial |-> CeilDiv((outer - inner) * den, num),
             nbins_azimuthal |-> CeilDiv(self.azimuthal_div, 1),
             inner |-> inner, outer |-> outer]

\* _get_bins.  With _outer unset the radial step is a whole number
\* (FlexibleAnnularDetector's step_size), so the effective outer is one too.
_get_bins(self, cutoff_scattering_angle) ==
    LET inner == IF self.inner = NONE THEN 0 ELSE self.inner
        num == self.radial_steps[1]
        den == self.radial_steps[2]
        outer == IF self.outer = NONE
                 THEN (FloorDiv(cutoff_scattering_angle * den, num) * num) \div den
                 ELSE self.outer
    IN IF self.outer = NONE /\ cutoff_scattering_angle = NONE
       THEN [err |-> OuterNotSetError]
       ELSE IF num = 0 THEN [err |-> ZeroDivisionError]
       ELSE [err |-> NoError,
             nbins_radial |-> CeilDiv((outer - inner) * den, num),
             nbins_azimuthal |-> CeilDiv(self.azimuthal_div, 1),
             inner |-> inner, outer |-> outer]

\* The body of _get_regions: what a call that bypasses the cache computes.
_get_regions_body(self, gpts, angular_sampling, cutoff_scattering_angle, nan) ==
    LET b == _get_bins(self, cutoff_scattering_angle)
    IN IF b.err # NoError THEN [err |-> b.err, regions |-> <<>>]
       ELSE LET region_labels == _polar_regions(gpts, angular_sampling, b.inner, b.outer,
                                                b.nbins_radial, b.nbins_azimuthal, nan)
            IN IF \A c \in Cells(gpts) : region_labels[c] = -1
               THEN [err |-> ZeroSizedError, regions |-> <<>>]
               ELSE [err |-> NoError, regions |-> _label_to_index(region_labels, gpts)]

\* Cache: the entries, oldest first; insert drops the oldest beyond the capacity.
CacheLookup(cache, key) == {k \in 1..Len(cache) : cache[k].key = key}

RECURSIVE CacheCheckSize(_)
CacheCheckSize(cache) ==
    IF Len(cache) > CacheCapacity THEN CacheCheckSize(Tail(cache)) ELSE cache

CacheInsert(cache, key, value) ==
    CacheCheckSize(SelectSeq(cache, LAMBDA e : e.key # key) \o <<[key |-> key, value |-> value]>>)

\* @cached_method('cache') around _get_regions: the key is the arguments.
_get_regions(self, cache, gpts, angular_sampling, cutoff_scattering_angle, nan) ==
    LET key == <<gpts, angular_sampling, cutoff_scattering_angle>>
        found == CacheLookup(cache, key)
    IN IF found # {}
       THEN [err |-> NoError, regions |-> cache[CHOOSE k \in found : TRUE].value,
             cache |-> cache, miss |-> FALSE, evicted |-> {}]
       ELSE LET r == _get_regions_body(self, gpts, angular_sampling,
                                       cutoff_scattering_angle, nan)
                after == IF r.err = NoError THEN CacheInsert(cache, key, r.regions)
                         ELSE cache
            IN [err |-> r.err, regions |-> r.regions, cache |-> after, miss |-> TRUE,
                evicted |-> {cache[k].key : k \in 1..Len(cache)}
                            \ {after[k].key : k \in 1..Len(after)}]

\* watched_property('changed'): after the setter ran, the event notifies its
\* callbacks; a cache-clearing callback empties the cache.
notify(cache) == IF "cache_clear" \in changed_callbacks THEN <<>> ELSE cache

\* ---------------------------------------------------------- the intensity
\* abs2(fft2(waves.array)) of one wave, flattened: the patterns detected.
Intensity(pattern, gpts, c) ==
    IF pattern = "uniform" THEN 1
    ELSE IF c \div gpts[2] < gpts[1] \div 2 THEN 1 ELSE 0

\* The batches of waves detected: one pattern per batch element.
Batches == {<<"half", "uniform">>}

\* xp.sum(array, axis=(-2, -1)) of one batch element.
Total(pattern, gpts) ==
    SumOver([c \in 0..(gpts[1] * gpts[2] - 1) |-> Intensity(pattern, gpts, c)],
            0..(gpts[1] * gpts[2] - 1))

\* The sum of one batch element over the flat indices of a group.
SumGroup(pattern, gpts, indices) ==
    SumOver([k \in 1..Len(indices) |-> Intensity(pattern, gpts, indices[k])],
            1..Len(indices))

\* AnnularDetector._integrate_array after the regions are resolved: group 0
\* summed, over the total when normalize.  A value is the fraction <<num, den>>.
_integrate_array(regions, batch, gpts, normalize) ==
    IF Len(regions) = 0 THEN [err |-> IndexError, value |-> <<>>]
    ELSE [err |-> NoError,
          value |-> [b \in 1..Len(batch) |->
                        <<SumGroup(batch[b], gpts, regions[1]),
                          IF normalize THEN Total(batch[b], gpts) ELSE 1>>]]

\* separators: 0 followed by the running sum of the group lengths.
RECURSIVE Cumsum(_, _)
Cumsum(lens, k) == IF k = 0 THEN 0 ELSE Cumsum(lens, k - 1) + lens[k]

Separators(regions) ==
    Tuple([k \in 1..(Len(regions) + 1) |->
              Cumsum([g \in 1..Len(regions) |-> Len(regions[g])], k - 1)],
          Len(regions) + 1)

RECURSIVE Concatenate(_)
Concatenate(regions) ==
    IF regions = <<>> THEN <<>> ELSE Head(regions) \o Concatenate(Tail(regions))

\* sum_run_length_encoded(intensity, result, separators) for one batch element:
\* result[g] = sum(intensity[separators[g]:separators[g + 1]]).
sum_run_length_encoded(values, separators) ==
    Tuple([g \in 1..(Len(separators) - 1) |->
              SumOver(values, (separators[g] + 1)..separators[g + 1])],
          Len(separators) - 1)

\* The part FlexibleAnnularDetector.detect and SegmentedDetector.detect share:
\* result[b][g], not yet normalised.
RunLengthSums(regions, batch, gpts) ==
    LET separators == Separators(regions)
        order == Concatenate(regions)
    IN Tuple([b \in 1..Len(batch) |->
                 sum_run_length_encoded(
                     Tuple([k \in 1..Len(order) |-> Intensity(batch[b], gpts, order[k])],
                           Len(order)),
                     separators)],
             Len(batch))

\* FlexibleAnnularDetector.detect after the regions are resolved.
FlexibleDetect(regions, batch, gpts) ==
    IF Len(regions) = 0 THEN [err |-> ValueError, value |-> <<>>]
    ELSE LET result == RunLengthSums(regions, batch, gpts)
         IN [err |-> NoError,
             value |-> [b \in 1..Len(batch) |->
                           [g \in 1..Len(regions) |->
                               <<result[b][g], Total(batch[b], gpts)>>]]]

\* The properties SegmentedDetector.nbins_radial and nbins_angular.
nbins_radial(self) ==
    TruncDiv((self.outer - self.inner) * self.radial_steps[2], self.radial_steps[1])

nbins_angular(self) == TruncDiv(self.azimuthal_div, 1)

\* SegmentedDetector.detect after the regions are resolved:
\* result.reshape((-1, nbins_radial, nbins_angular)) / total[:, None, None].
\* The reshape needs the element count to be a multiple of the two bin counts,
\* the division needs the leading lengths to broadcast.
SegmentedDetect(self, regions, batch, gpts) ==
    IF Len(regions) = 0 THEN [err |-> ValueError, value |-> <<>>]
    ELSE LET result == RunLengthSums(regions, batch, gpts)
             \* result.reshape(...) comes after the sums; the properties raise
             \* ZeroDivisionError when _radial_steps is 0
             G == Len(regions)
             R == nbins_radial(self)
             A == nbins_angular(self)
             size == Len(batch) * G
             lead == size \div (R * A)
             flat(k) == result[(k \div G) + 1][(k % G) + 1]
             outLen == IF lead > Len(batch) THEN lead ELSE Len(batch)
         IN IF self.radial_steps[1] = 0 THEN [err |-> ZeroDivisionError, value |-> <<>>]
            ELSE IF R <= 0 \/ A <= 0 THEN [err |-> ValueError, value |-> <<>>]
            ELSE IF size % (R * A) # 0 THEN [err |-> ValueError, value |-> <<>>]
            ELSE IF lead # Len(batch) /\ lead # 1 /\ Len(batch) # 1
                 THEN [err |-> ValueError, value |-> <<>>]
            ELSE [err |-> NoError,
                  value |-> [b \in 1..outLen |->
                      [r \in 1..R |-> [a \in 1..A |->
                          <<flat((((IF lead = 1 THEN 1 ELSE b) - 1) * R + (r - 1)) * A + (a - 1)),
                            Total(batch[IF Len(batch) = 1 THEN 1 ELSE b], gpts)>>]]]]

\* ------------------------------------------------------------- the state
VARIABLES
    det,     \* the detector's fields
    cache,   \* the detector's cache: entries [key, value], oldest first
    last,    \* the last operation and what it did (its fields depend on op)
    other,   \* a copy of the detector, [det, cache], or None
    scan     \* a scan in progress, or None

vars == <<det, cache, last, other, scan>>

Detectors ==
    {AnnularDetector(i, o) : i \in 0..MaxAngle, o \in 0..MaxAngle}
    \cup {FlexibleAnnularDetector(st) : st \in 1..MaxAngle}
    \cup {SegmentedDetector(x[1], x[2], x[3], x[4]) :
            x \in (0..MaxAngle) \X (0..MaxAngle) \X (1..MaxBinsRadial) \X AngularBins}

\* The detectors as constructed, the limits in order.
Constructed == {d \in Detectors : d.kind = "FlexibleAnnular" \/ d.inner <= d.outer}

Init ==
    /\ det \in Constructed
    /\ cache = <<>>
    /\ last = [op |-> "init"]
    /\ other = None
    /\ scan = None

\* The setters, each a watched_property.
SetInner(v) ==
    /\ det.kind \in {"Annular", "Segmented"}
    /\ det' = [det EXCEPT !.inner = v]
    /\ cache' = notify(cache)
    /\ last' = [op |-> "set"]
    /\ UNCHANGED <<other, scan>>

\* AnnularDetector's setter moves _max_detected_angle too, SegmentedDetector's
\* does not.
SetOuter(v) ==
    /\ det.kind \in {"Annular", "Segmented"}
    /\ det' = [det EXCEPT !.outer = v,
                          !.max_detected_angle = IF det.kind = "Annular" THEN v ELSE @]
    /\ cache' = notify(cache)
    /\ last' = [op |-> "set"]
    /\ UNCHANGED <<other, scan>>

SetStepSize(v) ==
    /\ det.kind = "FlexibleAnnular"
    /\ det' = [det EXCEPT !.radial_steps = Fraction(v, 1)]
    /\ cache' = notify(cache)
    /\ last' = [op |-> "set"]
    /\ UNCHANGED <<other, scan>>

SetNbinsRadial(v) ==
    /\ det.kind = "Segmented"
    /\ det' = [det EXCEPT !.radial_steps = Fraction(det.outer - det.inner, v)]
    /\ cache' = notify(cache)
    /\ last' = [op |-> "set"]
    /\ UNCHANGED <<other, scan>>

SetNbinsAngular(v) ==
    /\ det.kind = "Segmented"
    /\ det' = [det EXCEPT !.azimuthal_div = v]
    /\ cache' = notify(cache)
    /\ last' = [op |-> "set"]
    /\ UNCHANGED <<other, scan>>

IsPolar(d) == d.kind \in {"Annular", "FlexibleAnnular", "Segmented", "Polar"}

\* What show and detect record: the key resolved, whether _get_regions' body
\* ran (miss), whether it returned (resolved) and what (regions), the keys the
\* insert dropped, and the operation's error and value.
Done(op, w, batch, normalize, r, out) ==
    [op |-> op, key |-> <<w.gpts, w.angular_sampling, w.cutoff>>, waves |-> w,
     batch |-> batch, normalize |-> normalize,
     miss |-> r.miss, resolved |-> r.err = NoError, regions |-> r.regions,
     evicted |-> r.evicted, err |-> out.err, value |-> out.value]

\* show(waves): the regions resolved for the waves' grid.
Show(w, nan) ==
    LET r == IF GridIsDefined(w)
             THEN _get_regions(det, cache, w.gpts, w.angular_sampling, w.cutoff, nan)
             ELSE [err |-> GridUndefinedError, regions |-> <<>>, cache |-> cache,
                   miss |-> FALSE, evicted |-> {}]
    IN /\ IsPolar(det)
       /\ cache' = r.cache
       /\ last' = Done("show", w, <<>>, TRUE, r, [err |-> r.err, value |-> <<>>])
       /\ UNCHANGED <<det, other, scan>>

\* detect(waves): the regions resolved, then the class's integration.
Detect(w, batch, normalize, nan) ==
    LET r == _get_regions(det, cache, w.gpts, w.angular_sampling, w.cutoff, nan)
        out == IF r.err # NoError THEN [err |-> r.err, value |-> <<>>]
               ELSE IF det.kind = "Annular"
                    THEN _integrate_array(r.regions, batch, w.gpts, normalize)
               ELSE IF det.kind = "FlexibleAnnular"
                    THEN FlexibleDetect(r.regions, batch, w.gpts)
               ELSE SegmentedDetect(det, r.regions, batch, w.gpts)
    IN /\ IsPolar(det)
       /\ det.kind # "Annular" => normalize
       /\ cache' = r.cache
       /\ last' = Done("detect", w, batch, normalize, r, out)
       /\ UNCHANGED <<det, other, scan>>

Next ==
    \/ \E v \in 0..MaxAngle : SetInner(v)
    \/ \E v \in 0..MaxAngle : SetOuter(v)
    \/ \E v \in 1..MaxAngle : SetStepSize(v)
    \/ \E v \in 1..MaxBinsRadial : SetNbinsRadial(v)
    \/ \E v \in AngularBins : SetNbinsAngular(v)
    \/ \E w \in WavesSet, n \in NanOutcomes : Show(w, n)
    \/ \E w \in WavesSet, b \in Batches, z \in BOOLEAN, n \in NanOutcomes :
          Detect(w, b, z, n)

Spec == Init /\ [][Next]_vars

\* ------------------------------------------- the functions on their own
\* _PolarDetector.__init__ with its own arguments: nullable limits, a whole
\* radial step.
_PolarDetector(inner, outer, radial_steps, azimuthal_div) ==
    [kind |-> "Polar", inner |-> inner, outer |-> outer,
     radial_steps |-> Fraction(radial_steps, 1), azimuthal_div |-> azimuthal_div,
     max_detected_angle |-> outer, save_file |-> _save_file(None)]

PolarDetectors ==
    {_PolarDetector(x[1], x[2], x[3], x[4]) :
        x \in ({NONE} \cup 0..MaxAngle) \X ({NONE} \cup 0..MaxAngle)
              \X (1..MaxAngle) \X AngularBins}

\* The waves the functions are applied to: those of WavesSet, a 4 x 4 grid and
\* a grid whose axes differ.
FnWavesSet ==
    WavesSet \cup {Waves(<<2, 2>>, <<1, 1>>, 2), Waves(<<4, 4>>, <<1, 1>>, 2),
                   Waves(<<2, 3>>, <<2, 1>>, 1)}

InitFn ==
    /\ det \in Constructed \cup PolarDetectors
    /\ cache = <<>>
    /\ last = [op |-> "init"]
    /\ other = None
    /\ scan = None

\* _get_bins(cutoff_scattering_angle), the cutoff possibly not given.
GetBins(cutoff) ==
    /\ last' = [op |-> "_get_bins", cutoff |-> cutoff, bins |-> _get_bins(det, cutoff)]
    /\ UNCHANGED <<det, cache, other, scan>>

\* The labeler and the grouper as _get_regions' body runs them.
GetRegions(w, nan) ==
    LET b == _get_bins(det, w.cutoff)
        labels == IF b.err # NoError THEN <<>>
                  ELSE _polar_regions(w.gpts, w.angular_sampling, b.inner, b.outer,
                                      b.nbins_radial, b.nbins_azimuthal, nan)
        r == _get_regions_body(det, w.gpts, w.angular_sampling, w.cutoff, nan)
    IN /\ last' = [op |-> "_get_regions", waves |-> w, bins |-> b, labels |-> labels,
                   groups |-> IF b.err # NoError THEN <<>>
                              ELSE _label_to_index(labels, w.gpts),
                   err |-> r.err, regions |-> r.regions]
       /\ UNCHANGED <<det, cache, other, scan>>

NextFn ==
    \/ \E c \in {NONE} \cup 0..(MaxAngle + 1) : GetBins(c)
    \/ \E w \in FnWavesSet, n \in NanOutcomes : GetRegions(w, n)

SpecFn == InitFn /\ [][NextFn]_vars

\* ------------------------------------------------- the failures raised
\* check_max_angle_exceeded(waves, max_angle).
check_max_angle_exceeded(w, max_angle) ==
    IF max_angle[1] = "str" THEN NoError
    ELSE IF max_angle # None /\ max_angle[2] > w.cutoff THEN MaxAngleError
    ELSE NoError

Min(a, b) == IF a < b THEN a ELSE b
Max(a, b) == IF a < b THEN b ELSE a

\* PixelatedDetector._resampled_gpts of a detector built with `resample`.
_resampled_gpts(resample, gpts, angular_sampling) ==
    IF resample = False
    THEN [err |-> NoError, gpts |-> gpts, angular_sampling |-> angular_sampling]
    ELSE IF resample = Str("uniform")
    THEN LET m == Max(angular_sampling[1], angular_sampling[2])
             \* scale_factor = angular_sampling / max(angular_sampling)
             n == <<CeilDiv(gpts[1] * angular_sampling[1], m),
                    CeilDiv(gpts[2] * angular_sampling[2], m)>>
             new_gpts == IF Abs(n[1] - n[2]) <= 2
                         THEN <<Min(n[1], n[2]), Min(n[1], n[2])>> ELSE n
         IN [err |-> NoError, gpts |-> new_gpts, angular_sampling |-> <<m, m>>]
    ELSE [err |-> ResampleError, gpts |-> <<>>, angular_sampling |-> <<>>]

\* The diffraction patterns given to integrate: the shape of the last two axes,
\* the units and the sampling of their calibrations, the patterns.
Patterns(gpts, units, sampling, batch) ==
    [gpts |-> gpts, units |-> units, sampling |-> sampling, batch |-> batch]

PatternsSet ==
    {Patterns(<<2, 2>>, u, <<1, 1>>, b) :
        u \in {<<"mrad", "mrad">>, <<"mrad", "1/Angstrom">>}, b \in Batches}

\* AnnularDetector.integrate(diffraction_patterns).
Integrate(dp, nan) ==
    LET w == Waves(dp.gpts, dp.sampling,
                   Min(dp.sampling[1] * dp.gpts[1], dp.sampling[2] * dp.gpts[2]))
        r == _get_regions(det, cache, w.gpts, w.angular_sampling, w.cutoff, nan)
        out == IF r.err # NoError THEN [err |-> r.err, value |-> <<>>]
               ELSE _integrate_array(r.regions, dp.batch, w.gpts, TRUE)
    IN /\ det.kind = "Annular"
       /\ IF dp.units[1] # dp.units[2]
          THEN /\ last' = [op |-> "integrate", err |-> UnitsError]
               /\ UNCHANGED cache
          ELSE /\ last' = [op |-> "integrate", err |-> out.err, value |-> out.value]
               /\ cache' = r.cache
       /\ UNCHANGED <<det, other, scan>>

ResampledGpts(resample, w) ==
    /\ last' = [op |-> "_resampled_gpts",
                err |-> _resampled_gpts(resample, w.gpts, w.angular_sampling).err]
    /\ UNCHANGED <<det, cache, other, scan>>

CheckMaxAngle(w, max_angle) ==
    /\ last' = [op |-> "check_max_angle_exceeded",
                err |-> check_max_angle_exceeded(w, max_angle)]
    /\ UNCHANGED <<det, cache, other, scan>>

NextErr ==
    \/ \E c \in {NONE} \cup 0..MaxAngle : GetBins(c)
    \/ \E w \in WavesSet, n \in NanOutcomes : Show(w, n)
    \/ \E dp \in PatternsSet, n \in NanOutcomes : Integrate(dp, n)
    \/ \E x \in {False, Str("uniform"), Str("bilinear")}, w \in FnWavesSet :
          ResampledGpts(x, w)
    \/ \E w \in WavesSet, a \in {None, Str("valid")} \cup {Num(v) : v \in 0..(MaxAngle + 1)} :
          CheckMaxAngle(w, a)

SpecErr == InitFn /\ [][NextErr]_vars

\* ----------------------------------------------------------- allocation
\* The other detectors.
PixelatedDetector(max_angle, resample) ==
    [kind |-> "Pixelated", max_angle |-> max_angle, resample |-> resample,
     max_detected_angle |-> NONE, save_file |-> _save_file(None)]

\* np.inf
Inf == Str("inf")

WavefunctionDetector ==
    [kind |-> "Wavefunction", max_detected_angle |-> Inf, save_file |-> _save_file(None)]

\* A scan: None, or its shape (its calibrations are one per axis).
Scan(shape) == <<"scan", shape>>
Scans == {None, Scan(<<2>>), Scan(<<2, 2>>)}

\* What allocate_measurement returns: the Measurement built from the zero
\* array, or what Measurement.write(path) returned.
Measurement(shape, calibrations) == <<"Measurement", shape, calibrations>>
Written(path) == <<"written", path>>

\* The last lines of every allocate_measurement.
write_if_save_file(self, shape, calibrations) ==
    IF self.save_file[1] = "str"
    THEN [err |-> NoError, shape |-> shape, written |-> TRUE,
          returned |-> Written(self.save_file[2])]
    ELSE [err |-> NoError, shape |-> shape, written |-> FALSE,
          returned |-> Measurement(shape, calibrations)]

Failed(err) == [err |-> err, shape |-> <<>>, written |-> FALSE, returned |-> None]

\* _PolarDetector.allocate_measurement.  A calibration is named by its units.
_PolarDetector_allocate_measurement(self, w, sc) ==
    LET shape0 == IF sc = None THEN <<>> ELSE sc[2]
        calibrations0 == [k \in 1..Len(shape0) |-> "scan"]
        b == _get_bins(self, w.cutoff)
    IN IF b.err # NoError THEN Failed(b.err)
       ELSE LET shape1 == IF b.nbins_radial > 1 THEN Append(shape0, b.nbins_radial)
                          ELSE shape0
                calibrations1 == IF b.nbins_radial > 1 THEN Append(calibrations0, "mrad")
                                 ELSE calibrations0
                shape == IF b.nbins_azimuthal > 1 THEN Append(shape1, b.nbins_azimuthal)
                         ELSE shape1
                calibrations == IF b.nbins_azimuthal > 1 THEN Append(calibrations1, "rad")
                                ELSE calibrations1
            IN write_if_save_file(self, shape, calibrations)

\* FlexibleAnnularDetector.allocate_measurement: what it makes of the parent's
\* measurement.  Measurement.write returns a path (a str) or a Measurement.
FlexibleAnnularDetector_allocate_measurement(self, w, sc, write_returns_path) ==
    LET m == _PolarDetector_allocate_measurement(self, w, sc)
    IN IF m.err # NoError THEN m
       ELSE IF m.written /\ write_returns_path THEN [Failed(AttributeError) EXCEPT !.written = TRUE]
       ELSE IF Len(m.shape) = 0 THEN [Failed(IndexError) EXCEPT !.written = m.written]
       ELSE [m EXCEPT !.returned = <<"FlexibleAnnularMeasurement", m.shape>>]

\* waves.downsampled_gpts(max_angle): the gpts of the pattern cropped to the
\* angle, 'valid' being the cutoff.
downsampled_gpts(w, max_angle) ==
    LET angle == IF max_angle[1] = "num" THEN max_angle[2] ELSE w.cutoff
        kept(axis) == Cardinality({i \in 0..(w.gpts[axis] - 1) :
                          Abs(spatial_frequencies(w.gpts[axis], w.angular_sampling[axis], i))
                              <= angle})
    IN IF max_angle = None THEN w.gpts ELSE <<kept(1), kept(2)>>

\* PixelatedDetector.allocate_measurement.
PixelatedDetector_allocate_measurement(self, w, sc) ==
    IF ~GridIsDefined(w) THEN Failed(GridUndefinedError)
    ELSE IF check_max_angle_exceeded(w, self.max_angle) # NoError
    THEN Failed(check_max_angle_exceeded(w, self.max_angle))
    ELSE LET r == _resampled_gpts(self.resample, downsampled_gpts(w, self.max_angle),
                                  w.angular_sampling)
             scan_shape == IF sc = None THEN <<>> ELSE sc[2]
         IN IF r.err # NoError THEN Failed(r.err)
            ELSE write_if_save_file(self, scan_shape \o r.gpts,
                                    [k \in 1..Len(scan_shape) |-> "scan"]
                                    \o <<"mrad", "mrad">>)

\* WavefunctionDetector.allocate_measurement: scan.shape of no scan fails.
WavefunctionDetector_allocate_measurement(self, w, sc) ==
    IF ~GridIsDefined(w) THEN Failed(GridUndefinedError)
    ELSE IF sc = None THEN Failed(AttributeError)
    ELSE write_if_save_file(self, sc[2] \o w.gpts,
                            [k \in 1..Len(sc[2]) |-> "scan"] \o <<"A", "A">>)

allocate_measurement(self, w, sc, write_returns_path) ==
    IF self.kind = "Pixelated" THEN PixelatedDetector_allocate_measurement(self, w, sc)
    ELSE IF self.kind = "Wavefunction"
    THEN WavefunctionDetector_allocate_measurement(self, w, sc)
    ELSE IF self.kind = "FlexibleAnnular"
    THEN FlexibleAnnularDetector_allocate_measurement(self, w, sc, write_returns_path)
    ELSE _PolarDetector_allocate_measurement(self, w, sc)

AllocateMeasurement(w, sc, write_returns_path) ==
    LET m == allocate_measurement(det, w, sc, write_returns_path)
    IN /\ last' = [op |-> "allocate_measurement", waves |-> w, scan |-> sc,
                   err |-> m.err, shape |-> m.shape, written |-> m.written,
                   returned |-> m.returned]
       /\ UNCHANGED <<det, cache, other, scan>>

\* PixelatedDetector.detect and WavefunctionDetector.detect: the shape of one
\* batch element of what is returned.
DetectArray(w) ==
    LET r == _resampled_gpts(det.resample, downsampled_gpts(w, det.max_angle),
                             w.angular_sampling)
    IN /\ det.kind \in {"Pixelated", "Wavefunction"}
       /\ last' = IF det.kind = "Wavefunction"
                  THEN [op |-> "detect", waves |-> w, err |-> NoError, shape |-> w.gpts]
                  ELSE [op |-> "detect", waves |-> w, err |-> r.err, shape |-> r.gpts]
       /\ UNCHANGED <<det, cache, other, scan>>

\* The save_file arguments given to a constructor.
SaveFiles ==
    {None, Num(5), Str(<<"a">>), Str(<<"a">> \o hdf5), Str(hdf5), Str(<<"h", "d", "f", "5">>)}

MaxAngles == {None, Str("valid")} \cup {Num(v) : v \in 0..(MaxAngle + 1)}

AllDetectors ==
    {WithSaveFile(d, f) :
        d \in Constructed
               \cup {PixelatedDetector(a, x) :
                       a \in MaxAngles, x \in {False, Str("uniform"), Str("bilinear")}}
               \cup {WavefunctionDetector},
        f \in SaveFiles}

InitAlloc ==
    /\ det \in AllDetectors
    /\ cache = <<>>
    /\ last = [op |-> "init"]
    /\ other = None
    /\ scan = None

NextAlloc ==
    \/ \E w \in WavesSet \cup UndefinedWaves, sc \in Scans, p \in BOOLEAN :
          AllocateMeasurement(w, sc, p)
    \/ \E w \in WavesSet \cup UndefinedWaves, n \in NanOutcomes : Show(w, n)
    \/ \E w \in WavesSet, b \in Batches, z \in BOOLEAN, n \in NanOutcomes :
          Detect(w, b, z, n)
    \/ \E w \in WavesSet : DetectArray(w)

SpecAlloc == InitAlloc /\ [][NextAlloc]_vars

\* ------------------------------------------------------------ the copies
\* __copy__: the class called anew with what the properties of self return.
\* SegmentedDetector's nbins_radial property divides by _radial_steps and its
\* constructor by the nbins_radial it is given.
__copy__(self) ==
    IF self.kind = "Annular"
    THEN [err |-> NoError,
          det |-> WithSaveFile(AnnularDetector(self.inner, self.outer),
                               self.save_file)]
    ELSE IF self.kind = "FlexibleAnnular"
    THEN [err |-> NoError,
          det |-> WithSaveFile(FlexibleAnnularDetector(self.radial_steps[1]),
                               self.save_file)]
    ELSE IF self.radial_steps[1] = 0 THEN [err |-> ZeroDivisionError, det |-> self]
    ELSE IF nbins_radial(self) = 0 THEN [err |-> ZeroDivisionError, det |-> self]
    ELSE [err |-> NoError,
          det |-> WithSaveFile(SegmentedDetector(self.inner, self.outer, nbins_radial(self),
                                                 nbins_angular(self)),
                               self.save_file)]

\* The copy held next to the detector it was made from, with a cache of its own.
Copied(d, c) == <<"copy", [det |-> d, cache |-> c]>>

Copy ==
    LET c == __copy__(det)
    IN /\ other = None
       /\ det.kind \in {"Annular", "FlexibleAnnular", "Segmented"}
       /\ other' = IF c.err = NoError THEN Copied(c.det, <<>>) ELSE None
       /\ last' = [op |-> "copy", err |-> c.err]
       /\ UNCHANGED <<det, cache, scan>>

\* A write to outer on the copy.
CopySetOuter(v) ==
    /\ other # None
    /\ other[2].det.kind \in {"Annular", "Segmented"}
    /\ other' = Copied([other[2].det EXCEPT
                            !.outer = v,
                            !.max_detected_angle =
                                IF other[2].det.kind = "Annular" THEN v ELSE @],
                       notify(other[2].cache))
    /\ last' = [op |-> "copy.set"]
    /\ UNCHANGED <<det, cache, scan>>

\* show(waves) on the copy.
CopyShow(w, nan) ==
    LET r == _get_regions(other[2].det, other[2].cache, w.gpts, w.angular_sampling,
                          w.cutoff, nan)
    IN /\ other # None
       /\ other' = Copied(other[2].det, r.cache)
       /\ last' = [op |-> "copy.show", err |-> r.err]
       /\ UNCHANGED <<det, cache, scan>>

\* The detectors copied are constructed with save_file = 'a'.
InitCopy ==
    /\ det \in {WithSaveFile(d, Str(<<"a">>)) : d \in Constructed}
    /\ cache = <<>>
    /\ last = [op |-> "init"]
    /\ other = None
    /\ scan = None

NextCopy ==
    \/ \E v \in 0..MaxAngle : SetOuter(v)
    \/ \E v \in 1..MaxAngle : SetStepSize(v)
    \/ \E v \in 1..MaxBinsRadial : SetNbinsRadial(v)
    \/ Copy
    \/ \E v \in 0..MaxAngle : CopySetOuter(v)
    \/ \E w \in WavesSet, n \in NanOutcomes : CopyShow(w, n)

SpecCopy == InitCopy /\ [][NextCopy]_vars

\* ------------------------------------------------------ the labeler alone
\* _polar_regions applied to arguments of its own: limits in either order, a
\* radial bin count of either sign.
LabelArgs ==
    {[kind |-> "Args", waves |-> w, inner |-> x[1], outer |-> x[2],
      nbins_radial |-> x[3], nbins_azimuthal |-> x[4]] :
        w \in FnWavesSet,
        x \in (0..MaxAngle) \X (0..MaxAngle)
              \X ((-MaxBinsRadial)..MaxBinsRadial) \X AngularBins}

InitLabel ==
    /\ det \in LabelArgs
    /\ cache = <<>>
    /\ last = [op |-> "init"]
    /\ other = None
    /\ scan = None

PolarRegions(nan) ==
    /\ last.op = "init"
    /\ last' = [op |-> "_polar_regions",
                labels |-> _polar_regions(det.waves.gpts, det.waves.angular_sampling,
                                          det.inner, det.outer, det.nbins_radial,
                                          det.nbins_azimuthal, nan)]
    /\ UNCHANGED <<det, cache, other, scan>>

NextLabel == \E n \in NanOutcomes : PolarRegions(n)

SpecLabel == InitLabel /\ [][NextLabel]_vars

\* ------------------------------------------------------------- the scans
\* A scan driven over probe positions with a mocked detector, as the tests of
\* custom_scan, line_scan and grid_scan set it up: the waves are built at one
\* position after the other and handed to detect.
MockDetector == [kind |-> "Mock", max_detected_angle |-> NONE, save_file |-> _save_file(None)]

\* What the detector returns for the waves built at a position.
MockDetect(position) == <<"detected", position>>

Points == {<<0, 0>>, <<1, 1>>, <<2, 2>>}

RECURSIVE Sequences(_, _)
Sequences(S, n) ==
    IF n = 0 THEN {<<>>}
    ELSE {Append(q, x) : q \in Sequences(S, n - 1), x \in S}

\* A scan along the diagonal of the grid only.
grid_positions_diagonal(g) == [k \in 1..g |-> <<k - 1, k - 1>>]

line_positions(g) == [k \in 1..g |-> <<k - 1>>]
grid_positions(g) == [k \in 1..(g * g) |-> <<(k - 1) \div g, (k - 1) % g>>]

NewScan(kind, arg, positions) ==
    <<"running",
     [kind |-> kind, arg |-> arg, positions |-> positions, calls |-> 0,
     measurements |-> [k \in 1..Len(positions) |-> None],
     done |-> Len(positions) = 0]>>

\* One turn of the driver's loop: the next position is detected and the result
\* stored at its entry.
scan_step(sc) ==
    LET i == sc.calls + 1
    IN [sc EXCEPT !.calls = i,
                  !.measurements[i] = MockDetect(sc.positions[i]),
                  !.done = (i = Len(sc.positions))]

CustomScan(positions) ==
    /\ scan = None
    /\ scan' = NewScan("custom_scan", positions, positions)
    /\ last' = [op |-> "custom_scan"]
    /\ UNCHANGED <<det, cache, other>>

LineScan(g) ==
    /\ scan = None
    /\ scan' = NewScan("line_scan", g, line_positions(g))
    /\ last' = [op |-> "line_scan"]
    /\ UNCHANGED <<det, cache, other>>

GridScan(g) ==
    /\ scan = None
    /\ scan' = NewScan("grid_scan", g, grid_positions(g))
    /\ last' = [op |-> "grid_scan"]
    /\ UNCHANGED <<det, cache, other>>

ScanDetect ==
    /\ scan # None
    /\ ~scan[2].done
    /\ scan' = <<"running", scan_step(scan[2])>>
    /\ last' = [op |-> "detect"]
    /\ UNCHANGED <<det, cache, other>>

InitScan ==
    /\ det = MockDetector
    /\ cache = <<>>
    /\ last = [op |-> "init"]
    /\ other = None
    /\ scan = None

NextScan ==
    \/ \E n \in 1..MaxScan : \E positions \in Sequences(Points, n) : CustomScan(positions)
    \/ \E g \in 1..MaxScan : LineScan(g)
    \/ \E g \in 1..MaxScan : GridScan(g)
    \/ ScanDetect

SpecScan == InitScan /\ [][NextScan]_vars

\* ------------------------------------------------------------ the claims
\* What the claims speak of, stated apart from the code's arithmetic.
FlatCells(w) == 0..(w.gpts[1] * w.gpts[2] - 1)

\* alpha^2 of the flat index c.
AlphaSq(w, c) ==
    (FftFreq(w.gpts[1], c \div w.gpts[2]) * w.angular_sampling[1]) ^ 2
    + (FftFreq(w.gpts[2], c % w.gpts[2]) * w.angular_sampling[2]) ^ 2

\* The grid cells with inner <= alpha <= outer.
InBand(w, inner, outer) ==
    {c \in FlatCells(w) : inner * inner <= AlphaSq(w, c) /\ AlphaSq(w, c) <= outer * outer}

SeqSet(q) == {q[k] : k \in 1..Len(q)}

IsResolve == last.op \in {"show", "detect"}

\* What a resolution that bypasses the cache returns for the detector d.
FreshRegions(d, w) ==
    {_get_regions_body(d, w.gpts, w.angular_sampling, w.cutoff, n) : n \in NanOutcomes}

IsFresh(d, w, regions) ==
    \E f \in FreshRegions(d, w) : f.err = NoError /\ f.regions = regions

\* C1: the groups a resolution (show, detect) returns are those a computation
\* that bypasses the cache produces from the detector's current parameters.
C1_CacheCoherence ==
    (IsResolve /\ last.resolved) => IsFresh(det, last.waves, last.regions)

\* C2: a resolution that directly follows a resolution of the same key runs no
\* recomputation and returns the groups of a cache-bypassing resolution.
C2_HitRoundTrip ==
    [][(IsResolve /\ last.resolved /\ IsResolve' /\ last'.key = last.key)
       => (~last'.miss /\ IsFresh(det', last'.waves, last'.regions))]_vars

\* C3: with outer > inner, group k of _label_to_index holds exactly the flat
\* indices labelled k (k = 0..max label, -1 ignored), so the groups are
\* pairwise disjoint and their union is the cells with inner <= alpha <= outer.
FlatLabel(w, labels, c) == labels[<<c \div w.gpts[2], c % w.gpts[2]>>]

MaxLabel(w, labels) ==
    CHOOSE m \in {FlatLabel(w, labels, c) : c \in FlatCells(w)} :
        \A c \in FlatCells(w) : FlatLabel(w, labels, c) <= m

UsesLabeler == last.op = "_get_regions" /\ last.bins.err = NoError
               /\ last.bins.outer > last.bins.inner

C3_GroupsPartition ==
    UsesLabeler =>
        LET w == last.waves
            g == last.groups
        IN /\ Len(g) = (IF MaxLabel(w, last.labels) < 0 THEN 0
                        ELSE MaxLabel(w, last.labels) + 1)
           /\ \A k \in 1..Len(g) :
                 /\ SeqSet(g[k]) = {c \in FlatCells(w) : FlatLabel(w, last.labels, c) = k - 1}
                 /\ Cardinality(SeqSet(g[k])) = Len(g[k])
           /\ \A k, m \in 1..Len(g) : k # m => SeqSet(g[k]) \cap SeqSet(g[m]) = {}
           /\ UNION {SeqSet(g[k]) : k \in 1..Len(g)}
                = InBand(w, last.bins.inner, last.bins.outer)

\* C3's case: a band with cells in two groups and cells outside it.
C3_Witness ==
    /\ UsesLabeler
    /\ Len(last.groups) >= 2
    /\ \E k, m \in 1..Len(last.groups) : k # m /\ last.groups[k] # <<>> /\ last.groups[m] # <<>>
    /\ InBand(last.waves, last.bins.inner, last.bins.outer) # FlatCells(last.waves)

\* C4: with outer > inner, _get_regions returns nbins_radial * nbins_azimuthal
\* groups and no valid cell is labelled outside [0, nbins_radial * nbins_azimuthal).
C4_GroupCount ==
    (UsesLabeler /\ last.err = NoError) =>
        LET n == last.bins.nbins_radial * last.bins.nbins_azimuthal
        IN /\ Len(last.regions) = n
           /\ \A c \in InBand(last.waves, last.bins.inner, last.bins.outer) :
                 FlatLabel(last.waves, last.labels, c) \in 0..(n - 1)

\* C5: a geometry that selects no usable region (inner = outer, or no cell in
\* the band) makes the resolution fail with 'Zero-sized detector region'.
EffInner(d) == IF d.inner = NONE THEN 0 ELSE d.inner

EffOuter(d, w) ==
    IF d.outer # NONE THEN d.outer
    ELSE CHOOSE m \in 0..w.cutoff :
            /\ \E k \in 0..w.cutoff : m = k * d.radial_steps[1]
            /\ w.cutoff < m + d.radial_steps[1]

NoUsableRegion(d, w) ==
    \/ EffInner(d) = EffOuter(d, w)
    \/ InBand(w, EffInner(d), EffOuter(d, w)) = {}

C5_ZeroSizedIsError ==
    (IsResolve /\ NoUsableRegion(det, last.waves)) => last.err = ZeroSizedError

\* C6: AnnularDetector.detect returns, per batch element, the intensity summed
\* over the cells with inner <= alpha <= outer, over the total when normalize.
BandSum(pattern, w, inner, outer) ==
    SumOver([c \in FlatCells(w) |-> Intensity(pattern, w.gpts, c)], InBand(w, inner, outer))

C6_AnnularFormula ==
    (last.op = "detect" /\ det.kind = "Annular" /\ last.err = NoError) =>
        /\ Len(last.value) = Len(last.batch)
        /\ \A b \in 1..Len(last.batch) :
              last.value[b] = <<BandSum(last.batch[b], last.waves, det.inner, det.outer),
                                IF last.normalize THEN Total(last.batch[b], last.waves.gpts)
                                ELSE 1>>

\* C7: SegmentedDetector.detect returns a (batch, nbins_radial, nbins_angular)
\* array, entry [b, r, a] the normalised sum over the region a + r * nbins_angular.
C7_SegmentedLayout ==
    (last.op = "detect" /\ det.kind = "Segmented" /\ last.resolved) =>
        /\ last.err = NoError
        /\ det.radial_steps[1] # 0
        /\ Len(last.regions) = nbins_radial(det) * nbins_angular(det)
        /\ Len(last.value) = Len(last.batch)
        /\ \A b \in 1..Len(last.batch) :
              /\ Len(last.value[b]) = nbins_radial(det)
              /\ \A r \in 1..nbins_radial(det) :
                    /\ Len(last.value[b][r]) = nbins_angular(det)
                    /\ \A a \in 1..nbins_angular(det) :
                          last.value[b][r][a] =
                              <<SumGroup(last.batch[b], last.waves.gpts,
                                         last.regions[(a - 1) + (r - 1) * nbins_angular(det) + 1]),
                                Total(last.batch[b], last.waves.gpts)>>

\* C8: the cache holds at most one entry; a resolution recomputes exactly when
\* its key is not the cached one, and leaves the cache holding its key alone.
CachedKeys == {cache[k].key : k \in 1..Len(cache)}

C9_GetBins ==
    last.op = "_get_bins" =>
        LET b == last.bins
            num == det.radial_steps[1]
            den == det.radial_steps[2]
        IN /\ (det.outer = NONE /\ last.cutoff = NONE) => b.err = OuterNotSetError
           /\ (b.err = NoError /\ det.outer = NONE) =>
                 /\ \E k \in 0..last.cutoff : b.outer * den = k * num
                 /\ b.outer <= last.cutoff
                 /\ last.cutoff * den < b.outer * den + num
           /\ (b.err = NoError /\ det.inner = NONE) => b.inner = 0
           /\ (b.err = NoError /\ det.inner # NONE) => b.inner = det.inner
           /\ (b.err = NoError /\ det.outer # NONE) => b.outer = det.outer
           /\ (b.err = NoError /\ num > 0) =>
                 /\ b.nbins_radial * num >= (b.outer - b.inner) * den
                 /\ (b.nbins_radial - 1) * num < (b.outer - b.inner) * den
                 /\ b.nbins_azimuthal = det.azimuthal_div
           /\ (num > 0 /\ ~(det.outer = NONE /\ last.cutoff = NONE)) => b.err = NoError

\* C9's case: outer unset, a cutoff that is no multiple of the radial step.
C9_Witness ==
    /\ last.op = "_get_bins" /\ last.bins.err = NoError
    /\ det.outer = NONE /\ det.inner = NONE
    /\ last.bins.outer < last.cutoff /\ last.bins.outer > 0
    /\ last.bins.nbins_radial >= 1

\* C10: each failure case is raised with an error kind of its own, different
\* from the kind of every other case.
CaseError ==
    [outer_unset |-> OuterNotSetError, zero_sized |-> ZeroSizedError,
     units |-> UnitsError, resample |-> ResampleError, max_angle |-> MaxAngleError]

FailureCase ==
    IF last.op = "_get_bins" /\ last.bins.err = OuterNotSetError THEN "outer_unset"
    ELSE IF last.op = "show" /\ last.err = ZeroSizedError THEN "zero_sized"
    ELSE IF last.op = "integrate" /\ last.err = UnitsError THEN "units"
    ELSE IF last.op = "_resampled_gpts" /\ last.err # NoError THEN "resample"
    ELSE IF last.op = "check_max_angle_exceeded" /\ last.err # NoError THEN "max_angle"
    ELSE "none"

RaisedError == IF last.op = "_get_bins" THEN last.bins.err ELSE last.err

C10_DistinctKinds ==
    FailureCase # "none" =>
        \A c \in DOMAIN CaseError \ {FailureCase} : CaseError[c].type # RaisedError.type

\* C11: a detector whose requested detection angle is a number above the waves'
\* cutoff fails with the max-angle error in allocate_measurement and in detect;
\* a string, an unset or an equal angle never raises it.  (Left out: the
\* infinite angle of WavefunctionDetector, and PixelatedDetector.detect, which
\* hands its angle to waves.far_field.)
RequestedAngle(d) ==
    IF d.kind = "Pixelated" THEN d.max_angle
    ELSE IF d.kind = "Wavefunction" \/ d.max_detected_angle = NONE THEN None
    ELSE Num(d.max_detected_angle)

C11_MaxAngleChecked ==
    (/\ last.op \in {"allocate_measurement", "detect"}
     /\ ~(last.op = "detect" /\ det.kind = "Pixelated")
     /\ GridIsDefined(last.waves)) =>
        LET a == RequestedAngle(det)
            exceeds == a[1] = "num" /\ a[2] > last.waves.cutoff
        IN /\ exceeds => last.err = MaxAngleError
           /\ ~exceeds => last.err # MaxAngleError

\* C12: allocate_measurement and show on waves whose grid is not defined fail
\* with the grid precondition error, nothing constructed or written.
C12_GridPrecondition ==
    (last.op \in {"allocate_measurement", "show"} /\ ~GridIsDefined(last.waves)) =>
        /\ last.err = GridUndefinedError
        /\ last.op = "allocate_measurement" => (~last.written /\ last.returned = None)

\* C13: save_file is None or a string ending in '.hdf5', the extension appended
\* exactly when the path given lacks it; allocate_measurement returns what
\* Measurement.write(save_file) returned exactly when save_file is set, and the
\* zero-filled Measurement, nothing written, otherwise.
Normalised(f) ==
    \/ f = None
    \/ f[1] = "str" /\ Len(f[2]) >= 5
       /\ SubSeq(f[2], Len(f[2]) - 4, Len(f[2])) = <<".", "h", "d", "f", "5">>

GivenAs(f, given) ==
    IF given = None THEN f = None
    ELSE LET path == IF given[1] = "str" THEN given[2] ELSE <<"5">>
         IN IF Normalised(Str(path)) THEN f = Str(path)
            ELSE f = Str(path \o <<".", "h", "d", "f", "5">>)

C13_SaveFile ==
    /\ Normalised(det.save_file)
    /\ \E given \in SaveFiles : GivenAs(det.save_file, given)
    /\ \A given \in SaveFiles : GivenAs(det.save_file, given) => GivenAs(det.save_file, det.save_file)
    /\ last.op = "allocate_measurement" =>
          /\ last.written => det.save_file # None
          /\ last.written =>
                (last.err = NoError /\ last.returned = Written(det.save_file[2]))
          /\ (last.err = NoError /\ det.save_file # None) => last.written
          /\ (last.err = NoError /\ det.save_file = None) =>
                last.returned[1] \in {"Measurement", "FlexibleAnnularMeasurement"}

\* C18: the trailing shape of what allocate_measurement returns for a polar
\* detector is the shape of one batch element of what detect returns on the
\* same waves: () for Annular, (groups,) for FlexibleAnnular, (nbins_radial,
\* nbins_angular) for Segmented.
ElementShape(d, value) ==
    IF d.kind = "Annular" THEN <<>>
    ELSE IF d.kind = "FlexibleAnnular" THEN <<Len(value[1])>>
    ELSE <<Len(value[1]), Len(value[1][1])>>

TrailingShape(shape, sc) ==
    SubSeq(shape, (IF sc = None THEN 0 ELSE Len(sc[2])) + 1, Len(shape))

C18_AllocationAgrees ==
    [][(/\ last.op = "allocate_measurement" /\ last.err = NoError /\ IsPolar(det)
        /\ last'.op = "detect" /\ last'.err = NoError /\ last'.waves = last.waves)
       => TrailingShape(last.shape, last.scan) = ElementShape(det, last'.value)]_vars

\* C14: a scan over N positions (custom: the positions given, line: g, grid:
\* g * g) calls detect once per position, N calls when it is done, and the
\* entry of every position detected holds the result for that position.
ExpectedCalls ==
    IF scan[2].kind = "custom_scan" THEN Len(scan[2].arg)
    ELSE IF scan[2].kind = "line_scan" THEN scan[2].arg
    ELSE scan[2].arg * scan[2].arg

EntriesFilled == {k \in 1..Len(scan[2].measurements) : scan[2].measurements[k] # None}

LeqScaledAlpha(x, n, alphaSq) ==
    IF n >= 0 THEN x < 0 \/ x * x <= n * n * alphaSq
    ELSE x <= 0 /\ x * x >= n * n * alphaSq

\* floor(n * (alpha - inner) / (outer - inner)) for inner <= alpha <= outer,
\* inner < outer.
FloorRadialBin(alphaSq, inner, outer, n) ==
    CHOOSE r \in (-Abs(n))..Abs(n) :
        /\ LeqScaledAlpha(r * (outer - inner) + n * inner, n, alphaSq)
        /\ ~LeqScaledAlpha((r + 1) * (outer - inner) + n * inner, n, alphaSq)

\* The quotient cut towards zero, as a store into an integer array cuts it.
TruncRadialBin(alphaSq, inner, outer, n) ==
    IF n >= 0 THEN FloorRadialBin(alphaSq, inner, outer, n)
    ELSE -FloorRadialBin(alphaSq, inner, outer, -n)

LabelsFollow(radial_bin(_, _, _, _)) ==
    (last.op = "_polar_regions" /\ det.outer # det.inner) =>
        \A c \in FlatCells(det.waves) :
            LET label == FlatLabel(det.waves, last.labels, c)
                azimuthal_bin ==
                    AngularBin(FftFreq(det.waves.gpts[1], c \div det.waves.gpts[2])
                                   * det.waves.angular_sampling[1],
                               FftFreq(det.waves.gpts[2], c % det.waves.gpts[2])
                                   * det.waves.angular_sampling[2],
                               det.nbins_azimuthal)
            IN IF c \notin InBand(det.waves, det.inner, det.outer) THEN label = -1
               ELSE /\ azimuthal_bin \in 0..(det.nbins_azimuthal - 1)
                    /\ label = azimuthal_bin
                               + radial_bin(AlphaSq(det.waves, c), det.inner, det.outer,
                                            det.nbins_radial)
                                 * det.nbins_azimuthal

\* C15 as stated, the radial bin a floor: violated when nbins_radial < 0 and the
\* quotient is not whole.
C15_LabelFloored == LabelsFollow(FloorRadialBin)

\* C15 amended: a cell outside inner <= alpha <= outer is labelled -1, any
\* other cell azimuthal_bin + radial_bin * nbins_azimuthal (outer # inner), with
\* radial_bin the quotient nbins_radial * (alpha - inner) / (outer - inner) cut
\* towards zero, which is its floor when nbins_radial >= 0, not clipped, and the
\* azimuthal bin within 0..nbins_azimuthal - 1.
C15_LabelTruncated == LabelsFollow(TruncRadialBin)

\* C15's case: labels computed with a cell in the band whose quotient cut
\* towards zero is not its floor.
C15_Witness ==
    /\ last.op = "_polar_regions" /\ det.outer # det.inner
    /\ \E c \in InBand(det.waves, det.inner, det.outer) :
          TruncRadialBin(AlphaSq(det.waves, c), det.inner, det.outer, det.nbins_radial)
              # FloorRadialBin(AlphaSq(det.waves, c), det.inner, det.outer, det.nbins_radial)

\* C16: in FlexibleAnnularDetector.detect and SegmentedDetector.detect the
\* separators built from the groups have length num_groups + 1, start at 0,
\* never decrease (equal neighbours exactly for an empty group) and end at the
\* number of valid cells; the rearranged intensity holds the cells of group g
\* at separators[g]..separators[g + 1] - 1; and the value returned for batch b
\* and group g is the sum over that run over the total of batch element b.
GroupValue(b, g) ==
    IF det.kind = "FlexibleAnnular"
    THEN IF g \in DOMAIN last.value[b] THEN last.value[b][g] ELSE None
    ELSE LET r == ((g - 1) \div nbins_angular(det)) + 1
             a == ((g - 1) % nbins_angular(det)) + 1
         IN IF r \in DOMAIN last.value[b] /\ a \in DOMAIN last.value[b][r]
            THEN last.value[b][r][a] ELSE None

C16_RunLengthSetup ==
    (/\ last.op = "detect" /\ det.kind \in {"FlexibleAnnular", "Segmented"}
     /\ last.miss /\ last.err = NoError) =>
        LET separators == Separators(last.regions)
            rearranged == Concatenate(last.regions)
            G == Len(last.regions)
        IN /\ Len(separators) = G + 1
           /\ separators[1] = 0
           /\ \A g \in 1..G :
                 /\ separators[g] <= separators[g + 1]
                 /\ separators[g] = separators[g + 1] <=> last.regions[g] = <<>>
                 /\ SubSeq(rearranged, separators[g] + 1, separators[g + 1]) = last.regions[g]
           /\ separators[G + 1]
                 = Cardinality(InBand(last.waves, EffInner(det), EffOuter(det, last.waves)))
           /\ Len(last.value) = Len(last.batch)
           /\ \A b \in 1..Len(last.batch) : \A g \in 1..G :
                 GroupValue(b, g) =
                     <<SumOver([k \in 1..Len(rearranged) |->
                                   Intensity(last.batch[b], last.waves.gpts, rearranged[k])],
                               (separators[g] + 1)..separators[g + 1]),
                       Total(last.batch[b], last.waves.gpts)>>

\* The same for FlexibleAnnularDetector.detect alone.
C16_FlexibleRunLength ==
    det.kind = "FlexibleAnnular" => C16_RunLengthSetup

\* C17: an AnnularDetector with outer > inner, whatever was written to inner
\* and outer, has nbins_radial = 1 and nbins_azimuthal = 1, and the group 0 a
\* detect integrates over freshly computed regions is the whole band.
C17_AnnularSingleRegion ==
    (det.kind = "Annular" /\ det.outer > det.inner) =>
        /\ _get_bins(det, NONE).err = NoError
        /\ _get_bins(det, NONE).nbins_radial = 1
        /\ _get_bins(det, NONE).nbins_azimuthal = 1
        /\ (last.op = "detect" /\ last.miss /\ last.err = NoError) =>
              SeqSet(last.regions[1]) = InBand(last.waves, det.inner, det.outer)

\* C19: copy() returns a detector whose inner, outer, radial step, azimuthal
\* step, bins and save_file are the original's, with an empty cache of its
\* own; writes and resolutions on either leave the other as it was.
SameBins(a, b) ==
    \A cutoff \in {NONE} \cup 1..MaxAngle : _get_bins(a, cutoff) = _get_bins(b, cutoff)

C19_CopyFidelity ==
    last.op = "copy" =>
        /\ last.err = NoError
        /\ other # None
        /\ other[2].det.kind = det.kind
        /\ other[2].det.inner = det.inner
        /\ other[2].det.outer = det.outer
        /\ other[2].det.radial_steps = det.radial_steps
        /\ other[2].det.azimuthal_div = det.azimuthal_div
        /\ other[2].det.save_file = det.save_file
        /\ SameBins(other[2].det, det)
        /\ other[2].cache = <<>>

\* The independence alone: a step on the copy leaves the original's parameters
\* and cache, a step on the original leaves the copy.
C19_CopyIndependence ==
    [][/\ last'.op \in {"copy.set", "copy.show"} => (det' = det /\ cache' = cache)
       /\ last'.op = "set" => other' = other]_vars

====
